---------------------------- MODULE Spec2Model ----------------------------
(***************************************************************************)
(* Model of airsea_fluxes/airsea_data.ipynb: a notebook that evaluates      *)
(* air-sea fluxes and the Obukhov length from bulk parameters.              *)
(*                                                                         *)
(* The notebook is a sequence of code cells run top to bottom in one       *)
(* kernel.  The kernel namespace (the global variables) is the state; one  *)
(* action models one cell.  Floating-point values are modelled as exact    *)
(* rationals extended with the IEEE-754 special values (signed zero,       *)
(* signed infinity, NaN); rounding of the binary representation is not     *)
(* modelled.                                                               *)
(***************************************************************************)
EXTENDS Integers, Sequences, FiniteSets, TLC

(***************************************************************************)
(* Floating-point values.                                                  *)
(*   k = "fin"   : the rational s * n / d  (n >= 0, d > 0, lowest terms);   *)
(*                 n = 0 is a signed zero                                  *)
(*   k = "inf"   : s * infinity                                            *)
(*   k = "nan"   : not a number                                            *)
(*   k = "unset" : the name is not bound in the namespace                  *)
(***************************************************************************)
RECURSIVE GCD(_, _)
GCD(a, b) == IF b = 0 THEN a ELSE GCD(b, a % b)

Rat(s, n, d) ==
    LET c == GCD(n, d) IN [k |-> "fin", s |-> s, n |-> n \div c, d |-> d \div c]

\* A decimal literal of the source: Lit(-407, 100) is -4.07.
Lit(n, d) == IF n < 0 THEN Rat(-1, -n, d) ELSE Rat(1, n, d)

Inf(s) == [k |-> "inf", s |-> s, n |-> 1, d |-> 0]

NaN == [k |-> "nan", s |-> 1, n |-> 0, d |-> 0]

Unset == [k |-> "unset", s |-> 1, n |-> 0, d |-> 0]

IsNaN(x) == x.k = "nan"

IsInf(x) == x.k = "inf"

IsFin(x) == x.k = "fin"

IsZero(x) == x.k = "fin" /\ x.n = 0

\* unary minus: flips the sign bit, also of zero and infinity
FNeg(x) == IF x.k \in {"fin", "inf"} THEN [x EXCEPT !.s = -x.s] ELSE x

FMul(x, y) ==
    IF IsNaN(x) \/ IsNaN(y) THEN NaN
    ELSE IF (IsInf(x) /\ IsZero(y)) \/ (IsZero(x) /\ IsInf(y)) THEN NaN
    ELSE IF IsInf(x) \/ IsInf(y) THEN Inf(x.s * y.s)
    ELSE LET c1 == GCD(x.n, y.d)
             c2 == GCD(y.n, x.d)
         IN  [k |-> "fin", s |-> x.s * y.s,
              n |-> (x.n \div c1) * (y.n \div c2),
              d |-> (x.d \div c2) * (y.d \div c1)]

\* true division of numpy float64 scalars: a zero divisor gives a signed
\* infinity (or NaN for 0/0) and a RuntimeWarning, never an exception
FDiv(x, y) ==
    IF IsNaN(x) \/ IsNaN(y) THEN NaN
    ELSE IF IsInf(x) /\ IsInf(y) THEN NaN
    ELSE IF IsZero(x) /\ IsZero(y) THEN NaN
    ELSE IF IsInf(x) \/ IsZero(y) THEN Inf(x.s * y.s)
    ELSE IF IsInf(y) THEN [k |-> "fin", s |-> x.s * y.s, n |-> 0, d |-> 1]
    ELSE FMul(x, [k |-> "fin", s |-> y.s, n |-> y.d, d |-> y.n])

FAdd(x, y) ==
    IF IsNaN(x) \/ IsNaN(y) THEN NaN
    ELSE IF IsInf(x) /\ IsInf(y) THEN (IF x.s = y.s THEN x ELSE NaN)
    ELSE IF IsInf(x) THEN x
    ELSE IF IsInf(y) THEN y
    ELSE LET c == GCD(x.d, y.d)
             l == (x.d \div c) * y.d
             t == x.s * x.n * (y.d \div c) + y.s * y.n * (x.d \div c)
         IN  IF t = 0
             THEN [k |-> "fin", n |-> 0, d |-> 1,
                   s |-> IF x.n = 0 /\ y.n = 0 /\ x.s = -1 /\ y.s = -1
                         THEN -1 ELSE 1]
             ELSE IF t < 0 THEN Rat(-1, -t, l) ELSE Rat(1, t, l)

FSub(x, y) == FAdd(x, FNeg(y))

\* x ** 3
FCube(x) == FMul(FMul(x, x), x)

\* the exact root of a perfect square (the model's inputs are chosen so that
\* every root taken is exact)
ISqrt(m) == CHOOSE r \in 0..m : r * r = m

\* np.sqrt: NaN (and a RuntimeWarning) for a negative argument
FSqrt(x) ==
    IF IsNaN(x) THEN NaN
    ELSE IF IsZero(x) THEN x
    ELSE IF x.s = -1 THEN NaN
    ELSE IF IsInf(x) THEN x
    ELSE [k |-> "fin", s |-> 1, n |-> ISqrt(x.n), d |-> ISqrt(x.d)]

\* the order of a/b and c/d (a, c >= 0 and b, d > 0) as -1, 0 or 1, by
\* continued fractions, so that no product is formed
RECURSIVE CmpPos(_, _, _, _)
CmpPos(a, b, c, d) ==
    LET qa == a \div b
        qc == c \div d
        ra == a % b
        rc == c % d
    IN  IF qa < qc THEN -1
        ELSE IF qa > qc THEN 1
        ELSE IF ra = 0 /\ rc = 0 THEN 0
        ELSE IF ra = 0 THEN -1
        ELSE IF rc = 0 THEN 1
        ELSE CmpPos(d, rc, b, ra)

\* -1, 0 or 1; both zeros have sign 0
Sign(x) == IF IsZero(x) THEN 0 ELSE x.s

\* numeric comparison x < y; every comparison with NaN is false
FLt(x, y) ==
    /\ ~IsNaN(x) /\ ~IsNaN(y)
    /\ IF IsInf(x) THEN x.s = -1 /\ ~(IsInf(y) /\ y.s = -1)
       ELSE IF IsInf(y) THEN y.s = 1
       ELSE IF Sign(x) # Sign(y) THEN Sign(x) < Sign(y)
       ELSE IF Sign(x) = 0 THEN FALSE
       ELSE CmpPos(x.n, x.d, y.n, y.d) = 0 - Sign(x)

FLe(x, y) == ~IsNaN(x) /\ ~IsNaN(y) /\ ~FLt(y, x)

FAbs(x) == IF x.k \in {"fin", "inf"} THEN [x EXCEPT !.s = 1] ELSE x

(***************************************************************************)
(* "%w.pf" % x : the text of a float to p decimals, rounded half to even,  *)
(* left-padded with spaces to w characters.                                *)
(***************************************************************************)
\* One step of long division: <<(10 * r) \div d, (10 * r) % d>> for r < d,
\* by ten additions so that no intermediate value exceeds 2 * d.
RECURSIVE TenTimes(_, _, _, _, _)
TenTimes(r, d, i, q, acc) ==
    IF i = 0 THEN <<q, acc>>
    ELSE IF acc >= d - r THEN TenTimes(r, d, i - 1, q + 1, acc - (d - r))
    ELSE TenTimes(r, d, i - 1, q, acc + r)

RECURSIVE FracDigits(_, _, _)
FracDigits(r, d, p) ==
    IF p = 0 THEN <<>>
    ELSE LET qr == TenTimes(r, d, 10, 0, 0)
         IN  <<qr[1]>> \o FracDigits(qr[2], d, p - 1)

RECURSIVE FracRem(_, _, _)
FracRem(r, d, p) ==
    IF p = 0 THEN r ELSE FracRem(TenTimes(r, d, 10, 0, 0)[2], d, p - 1)

\* add one unit in the last place; carry is TRUE when all digits were 9
RECURSIVE IncDigits(_)
IncDigits(ds) ==
    IF ds = <<>> THEN [digits |-> <<>>, carry |-> TRUE]
    ELSE LET last == ds[Len(ds)]
             init == SubSeq(ds, 1, Len(ds) - 1)
         IN  IF last < 9
             THEN [digits |-> Append(init, last + 1), carry |-> FALSE]
             ELSE LET up == IncDigits(init)
                  IN  [digits |-> Append(up.digits, 0), carry |-> up.carry]

RECURSIVE NumDigits(_)
NumDigits(m) == IF m < 10 THEN 1 ELSE 1 + NumDigits(m \div 10)

Max(a, b) == IF a >= b THEN a ELSE b

Format(w, p, x) ==
    IF IsNaN(x)
    THEN [token |-> "nan", neg |-> FALSE, int |-> 0, frac |-> <<>>, width |-> Max(w, 3)]
    ELSE IF IsInf(x)
    THEN [token |-> "inf", neg |-> x.s = -1, int |-> 0, frac |-> <<>>,
          width |-> Max(w, IF x.s = -1 THEN 4 ELSE 3)]
    ELSE LET ip   == x.n \div x.d
             ds   == FracDigits(x.n % x.d, x.d, p)
             rem  == FracRem(x.n % x.d, x.d, p)
             odd  == IF p = 0 THEN ip % 2 = 1 ELSE ds[p] % 2 = 1
             up   == rem > x.d - rem \/ (rem = x.d - rem /\ odd)
             inc  == IncDigits(ds)
             int  == IF up /\ inc.carry THEN ip + 1 ELSE ip
             frac == IF up THEN inc.digits ELSE ds
             len  == (IF x.s = -1 THEN 1 ELSE 0) + NumDigits(int)
                     + (IF p > 0 THEN 1 + p ELSE 0)
         IN  [token |-> "num", neg |-> x.s = -1, int |-> int, frac |-> frac,
              width |-> Max(w, len)]

(***************************************************************************)
(* Bounds of the model and the values the inputs are drawn from.           *)
(***************************************************************************)
\* cloud cover ranges over -1 .. MaxCloud oktas (8 is overcast)
MaxCloud == 9

CloudCovers == {Lit(c, 1) : c \in (0 - 1)..MaxCloud}

\* the literals of cell 2 that the model varies
Observations ==
    [cloudCover      : CloudCovers,
     QswIdeal        : {Lit(1000, 1)},
     rain            : {Lit(0, 1)},
     surfaceSalinity : {Lit(40, 1), Lit(1000, 1)}]

\* rows of six numbers the bulk-flux estimator may return:
\* tau, Qsensible, Qlatent, LWnet, QnetMinusSW, evaporation
CoareRows ==
    {<<r[1], Lit(-407, 100), Lit(57, 1), Lit(-1835, 100), Lit(35, 1), r[2]>> :
        r \in {<<Lit(-41, 4), Lit(0, 1)>>, <<Lit(0, 1), Lit(0, 1)>>,
               <<Lit(41, 4), Lit(0, 1)>>, <<Lit(41, 4), Lit(36, 1)>>,
               <<Lit(41, 1), Lit(36, 1)>>}}

\* what a call of the estimator does: return a row, or raise
CoareResponses ==
    {[raised |-> FALSE, exc |-> "none", row |-> r] : r \in CoareRows}
    \cup {[raised |-> TRUE, exc |-> "FluxEstimationFailed", row |-> <<>>]}

\* what the seawater library returns for alpha, beta and cp_t_exact
GswResponses ==
    [alpha : {Lit(-1, 1), Lit(0, 1), Lit(1, 1)}, beta : {Lit(1, 1)}, Cp : {Lit(4, 1)}]

(***************************************************************************)
(* State.                                                                  *)
(***************************************************************************)
Names ==
    {"windspeed", "airTemperature", "relativeHumidity", "bulkSST", "latitude",
     "MSLP", "Hs", "rain", "mastHeight", "cloudCover", "QswIdeal",
     "surfaceSalinity", "dBar", "g", "rho0",
     "Cfrac", "albedo", "Qshortwave",
     "tau", "Qsensible", "Qlatent", "LWnet", "QnetMinusSW", "evaporation",
     "alpha", "beta", "Cp",
     "evap", "precip", "Qnet", "Ft", "Fs", "Qp",
     "Bf", "ustar", "kappa", "L"}

Cells == <<"cell2", "cell3", "cell4", "cell5", "cell6", "cell7">>

VARIABLES
    obs,        \* the literals written in cell 2
    ns,         \* the kernel namespace: name -> value
    A,          \* the global A, the array the estimator returned
    pc,         \* the next cell to run, or "done" / "error"
    ran,        \* the cells completed in the current run, in order
    error,      \* the exception that stopped the current run, or "none"
    summary,    \* the six values handed to the formats of cell 7
    stdout,     \* the lines cell 7 has written in the current run
    coareCall,  \* the last call of the estimator: {[args, resp]} or {}
    gswCall,    \* the last call of the seawater library
    prev        \* the previous run: {[obs, Qshortwave, ustar, summary, stdout]} or {}

vars == <<obs, ns, A, pc, ran, error, summary, stdout, coareCall, gswCall, prev>>

\* the namespace f with the bindings of g added
Assign(f, g) == [v \in Names |-> IF v \in DOMAIN g THEN g[v] ELSE f[v]]

Init ==
    /\ obs \in Observations
    /\ ns = [v \in Names |-> Unset]
    /\ A = <<>>
    /\ pc = "cell2"
    /\ ran = <<>>
    /\ error = "none"
    /\ summary = <<>>
    /\ stdout = <<>>
    /\ coareCall = {}
    /\ gswCall = {}
    /\ prev = {}

(***************************************************************************)
(* Cell 2: input data.                                                     *)
(***************************************************************************)
Cell2 ==
    /\ pc = "cell2"
    /\ ns' = Assign(ns,
          [windspeed        |-> Lit(54, 10),
           airTemperature   |-> Lit(78, 10),
           relativeHumidity |-> Lit(50, 1),
           bulkSST          |-> Lit(74, 10),
           latitude         |-> Lit(599, 10),
           MSLP             |-> Lit(10111, 10),
           Hs               |-> Lit(2, 10),
           rain             |-> obs.rain,
           mastHeight       |-> Lit(8, 1),
           cloudCover       |-> obs.cloudCover,
           QswIdeal         |-> obs.QswIdeal,
           surfaceSalinity  |-> obs.surfaceSalinity,
           dBar             |-> Lit(1, 10),
           g                |-> Lit(981, 100),
           rho0             |-> Lit(1025, 1)])
    /\ pc' = "cell3"
    /\ ran' = Append(ran, "cell2")
    /\ UNCHANGED <<obs, A, error, summary, stdout, coareCall, gswCall, prev>>

(***************************************************************************)
(* Cell 3: net shortwave radiation, then the bulk-flux estimator.          *)
(***************************************************************************)
CfracOf(cloudCover) == FDiv(cloudCover, Lit(8, 1))

\* a wrong sign in the attenuation: 1 + Cfrac^3 for 1 - Cfrac^3
QshortwaveOfGrowing(albedo, QswIdeal, Cfrac) ==
    FMul(FMul(FSub(Lit(1, 1), albedo), QswIdeal), FAdd(Lit(1, 1), FCube(Cfrac)))

QshortwaveOf(albedo, QswIdeal, Cfrac) ==
    FMul(FMul(FSub(Lit(1, 1), albedo), QswIdeal), FSub(Lit(1, 1), FCube(Cfrac)))

\* the arguments of coare35vn.coare35vn(...)
CoareArgs(Qshortwave) ==
    [u |-> ns["windspeed"], t |-> ns["airTemperature"],
     rh |-> ns["relativeHumidity"], ts |-> ns["bulkSST"], P |-> ns["MSLP"],
     Rs |-> Qshortwave, sigH |-> ns["Hs"], zu |-> ns["mastHeight"],
     zt |-> ns["mastHeight"], zq |-> ns["mastHeight"], lat |-> ns["latitude"]]

\* the estimator is a function of its arguments: the call just made is answered
\* the same way again
CoareAnswers(args, resp) == \A c \in coareCall : c.args = args => c.resp = resp

\* the estimator raised: the exception leaves cell 3 after Cfrac, albedo and
\* Qshortwave were assigned, and stops the run
EstimatorRaisedDefaults(local, resp) ==
    /\ ns' = Assign(Assign(ns, local),
                    [tau |-> Lit(0, 1), Qsensible |-> Lit(0, 1), Qlatent |-> Lit(0, 1),
                     LWnet |-> Lit(0, 1), QnetMinusSW |-> Lit(0, 1),
                     evaporation |-> Lit(0, 1)])
    /\ A' = <<<<Lit(0, 1), Lit(0, 1), Lit(0, 1), Lit(0, 1), Lit(0, 1), Lit(0, 1)>>>>
    /\ error' = error
    /\ pc' = "cell4"
    /\ ran' = Append(ran, "cell3")

EstimatorRaised(local, resp) ==
    /\ ns' = Assign(ns, local)
    /\ A' = A
    /\ error' = resp.exc
    /\ pc' = "error"
    /\ ran' = ran

Cell3 ==
    /\ pc = "cell3"
    /\ LET Cfrac      == CfracOf(ns["cloudCover"])
           albedo     == Lit(6, 100)
           Qshortwave == QshortwaveOf(albedo, ns["QswIdeal"], Cfrac)
           args       == CoareArgs(Qshortwave)
           local      == [Cfrac |-> Cfrac, albedo |-> albedo, Qshortwave |-> Qshortwave]
       IN  \E resp \in CoareResponses :
             /\ CoareAnswers(args, resp)
             /\ coareCall' = {[args |-> args, resp |-> resp]}
             /\ IF resp.raised
                THEN EstimatorRaised(local, resp)
                ELSE /\ ns' = Assign(Assign(ns, local),
                            [tau         |-> resp.row[1],
                             Qsensible   |-> resp.row[2],
                             Qlatent     |-> resp.row[3],
                             LWnet       |-> resp.row[4],
                             QnetMinusSW |-> resp.row[5],
                             evaporation |-> resp.row[6]])
                     /\ A' = <<resp.row>>
                     /\ error' = error
                     /\ pc' = "cell4"
                     /\ ran' = Append(ran, "cell3")
    /\ UNCHANGED <<obs, summary, stdout, gswCall, prev>>

(***************************************************************************)
(* Cell 4: thermal expansion and haline contraction coefficients.          *)
(***************************************************************************)
GswArgs == <<ns["surfaceSalinity"], ns["bulkSST"], ns["dBar"]>>

GswAnswers(args, resp) == \A c \in gswCall : c.args = args => c.resp = resp

Cell4 ==
    /\ pc = "cell4"
    /\ \E resp \in GswResponses :
          /\ GswAnswers(GswArgs, resp)
          /\ gswCall' = {[args |-> GswArgs, resp |-> resp]}
          /\ ns' = Assign(ns, [alpha |-> resp.alpha, beta |-> resp.beta, Cp |-> resp.Cp])
    /\ pc' = "cell5"
    /\ ran' = Append(ran, "cell4")
    /\ UNCHANGED <<obs, A, error, summary, stdout, coareCall, prev>>

(***************************************************************************)
(* Cell 5: the density flux.                                               *)
(***************************************************************************)
\* the net heat flux added to the value a run before left in Qnet
QnetOfAccumulating(QnetMinusSW, Qshortwave) ==
    IF ns["Qnet"] = Unset
    THEN FAdd(FNeg(QnetMinusSW), Qshortwave)
    ELSE FAdd(ns["Qnet"], FAdd(FNeg(QnetMinusSW), Qshortwave))

QnetOf(QnetMinusSW, Qshortwave) == FAdd(FNeg(QnetMinusSW), Qshortwave)

FtOf(Qnet, rho0, Cp) == FDiv(FNeg(Qnet), FMul(rho0, Cp))

FsOf(evap, precip, surfaceSalinity) ==
    FDiv(FSub(evap, precip), FSub(Lit(1, 1), FDiv(surfaceSalinity, Lit(1000, 1))))

QpOf(rho0, alpha, Ft, beta, Fs) == FMul(rho0, FAdd(FMul(alpha, Ft), FMul(beta, Fs)))

DensityFlux(n) ==
    LET evap   == FDiv(n["evaporation"], Lit(3600, 1))
        precip == FDiv(n["rain"], Lit(3600, 1))
        Qnet   == QnetOf(n["QnetMinusSW"], n["Qshortwave"])
        Ft     == FtOf(Qnet, n["rho0"], n["Cp"])
        Fs     == FsOf(evap, precip, n["surfaceSalinity"])
        Qp     == QpOf(n["rho0"], n["alpha"], Ft, n["beta"], Fs)
    IN  [evap |-> evap, precip |-> precip, Qnet |-> Qnet, Ft |-> Ft, Fs |-> Fs, Qp |-> Qp]

\* the net heat flux also written back over Qshortwave
Cell5AssignsOverwriting == [Qshortwave |-> DensityFlux(ns).Qnet] @@ DensityFlux(ns)

\* the names cell 5 binds
Cell5Assigns == DensityFlux(ns)

Cell5 ==
    /\ pc = "cell5"
    /\ ns' = Assign(ns, Cell5Assigns)
    /\ pc' = "cell6"
    /\ ran' = Append(ran, "cell5")
    /\ UNCHANGED <<obs, A, error, summary, stdout, coareCall, gswCall, prev>>

(***************************************************************************)
(* Cell 6: buoyancy flux and Obukhov length.                               *)
(***************************************************************************)
BfOf(g, Qp, rho0) == FDiv(FMul(FNeg(g), Qp), rho0)

ustarOf(tau, rho0) == FSqrt(FDiv(tau, rho0))

LOf(ustar, kappa, Bf) == FDiv(FNeg(FCube(ustar)), FMul(kappa, Bf))

Cell6 ==
    /\ pc = "cell6"
    /\ LET Bf    == BfOf(ns["g"], ns["Qp"], ns["rho0"])
           ustar == ustarOf(ns["tau"], ns["rho0"])
           kappa == Lit(4, 10)
           L     == LOf(ustar, kappa, Bf)
       IN  ns' = Assign(ns, [Bf |-> Bf, ustar |-> ustar, kappa |-> kappa, L |-> L])
    /\ pc' = "cell7"
    /\ ran' = Append(ran, "cell6")
    /\ UNCHANGED <<obs, A, error, summary, stdout, coareCall, gswCall, prev>>

(***************************************************************************)
(* Cell 7: the summary.  summary holds the values handed to the formats,  *)
(* stdout the lines written.                                               *)
(***************************************************************************)
\* the estimator's values reported as they come, positive away from the ocean
SummaryOfOutward(n) ==
    <<n["Qsensible"], n["Qlatent"], n["LWnet"], n["Qnet"], n["Bf"], n["L"]>>

SummaryOf(n) ==
    <<FNeg(n["Qsensible"]), FNeg(n["Qlatent"]), FNeg(n["LWnet"]),
      n["Qnet"], n["Bf"], n["L"]>>

Line(text, w, p, x, unit) == [text |-> text, num |-> Format(w, p, x), unit |-> unit]

Cell7 ==
    /\ pc = "cell7"
    /\ LET s == SummaryOf(ns)
       IN  /\ summary' = s
           /\ stdout' = stdout \o
                <<"Summary of fluxes defined as positive into the ocean:",
                  Line("Sensible heat flux, ", 5, 2, s[1], " W/m2"),
                  Line("Latent heat flux, ", 5, 2, s[2], " W/m2"),
                  Line("Net longwave radiation, ", 5, 2, s[3], " W/m2"),
                  Line("Net heat flux, ", 5, 2, s[4], " W/m2"),
                  Line("Buoyancy flux, ", 10, 9, s[5], ""),
                  Line("The Obhukov length is, ", 5, 2, s[6], " m")>>
    /\ pc' = "done"
    /\ ran' = Append(ran, "cell7")
    /\ UNCHANGED <<obs, ns, A, error, coareCall, gswCall, prev>>

(***************************************************************************)
(* Running the notebook again in the same kernel after a complete run: the *)
(* namespace is kept, the outputs of the cells are those of the new run.   *)
(* A run stopped by an exception ends the session.                         *)
(***************************************************************************)
Restart(newObs) ==
    /\ pc = "done"
    /\ prev' = {[obs |-> obs, Qshortwave |-> ns["Qshortwave"], ustar |-> ns["ustar"],
                 summary |-> summary, stdout |-> stdout]}
    /\ obs' = newObs
    /\ pc' = "cell2"
    /\ ran' = <<>>
    /\ error' = "none"
    /\ summary' = <<>>
    /\ stdout' = <<>>
    /\ UNCHANGED <<ns, A, coareCall, gswCall>>

\* run all cells again, cell 2 unchanged
RunAgain == Restart(obs)

\* edit the cloud cover in cell 2, then run all cells again
EditCloudCover ==
    \E c \in CloudCovers \ {obs.cloudCover} : Restart([obs EXCEPT !.cloudCover = c])

Next ==
    \/ Cell2
    \/ Cell3
    \/ Cell4
    \/ Cell5
    \/ Cell6
    \/ Cell7
    \/ RunAgain
    \/ EditCloudCover

Spec == Init /\ [][Next]_vars

(***************************************************************************)
(* Which names each cell reads and writes, and helpers for the properties. *)
(***************************************************************************)
Writes(cell) ==
    CASE cell = "cell2" -> {"windspeed", "airTemperature", "relativeHumidity",
                            "bulkSST", "latitude", "MSLP", "Hs", "rain",
                            "mastHeight", "cloudCover", "QswIdeal",
                            "surfaceSalinity", "dBar", "g", "rho0"}
      [] cell = "cell3" -> {"Cfrac", "albedo", "Qshortwave", "tau", "Qsensible",
                            "Qlatent", "LWnet", "QnetMinusSW", "evaporation"}
      [] cell = "cell4" -> {"alpha", "beta", "Cp"}
      [] cell = "cell5" -> {"evap", "precip", "Qnet", "Ft", "Fs", "Qp"}
      [] cell = "cell6" -> {"Bf", "ustar", "kappa", "L"}
      [] OTHER -> {}

Reads(cell) ==
    CASE cell = "cell3" -> {"cloudCover", "QswIdeal", "windspeed", "airTemperature",
                            "relativeHumidity", "bulkSST", "MSLP", "Hs",
                            "mastHeight", "latitude"}
      [] cell = "cell4" -> {"surfaceSalinity", "bulkSST", "dBar"}
      [] cell = "cell5" -> {"evaporation", "rain", "QnetMinusSW", "Qshortwave",
                            "rho0", "Cp", "surfaceSalinity", "alpha", "beta"}
      [] cell = "cell6" -> {"g", "Qp", "rho0", "tau"}
      [] cell = "cell7" -> {"Qsensible", "Qlatent", "LWnet", "Qnet", "Bf", "L"}
      [] OTHER -> {}

Ran(cell) == \E i \in 1..Len(ran) : ran[i] = cell

Zero == Lit(0, 1)

CloudInRange(c) == FLe(Zero, c) /\ FLe(c, Lit(8, 1))

\* cell 3 has computed the net shortwave radiation in the current run
ShortwaveDone == pc \in {"cell4", "cell5", "cell6", "cell7", "done", "error"}

\* cell 6 has computed Bf, ustar and L in the current run
ObukhovDone == pc \in {"cell7", "done"}

(***************************************************************************)
(* Properties.                                                             *)
(***************************************************************************)

\* C1: when the buoyancy flux is exactly zero and tau >= 0, the Obukhov step
\* completes without an error and L is a signed infinity, never 0 or NaN.
C1_NeutralGivesInfinity ==
    (ObukhovDone /\ IsZero(ns["Bf"]) /\ FLe(Zero, ns["tau"]))
        => (error = "none" /\ IsInf(ns["L"]))

\* C2: a negative tau ends the run in an InvalidInput error; no friction
\* velocity, buoyancy flux or Obukhov length is computed from it.
C2_NegativeTauRejected ==
    (Ran("cell3") /\ FLt(ns["tau"], Zero) /\ pc \notin {"cell4", "cell5", "cell6"})
        => (pc = "error" /\ error = "InvalidInput" /\ ~Ran("cell6"))

\* C3: a cloud cover outside [0, 8] ends the shortwave step in an InvalidInput
\* error and nothing reaches the estimator; a cloud cover inside [0, 8] does
\* not fail that way.
C3_CloudCoverValidated ==
    ShortwaveDone =>
        IF CloudInRange(ns["cloudCover"])
        THEN error # "InvalidInput"
        ELSE /\ pc = "error"
             /\ error = "InvalidInput"
             /\ \A c \in coareCall : c.args.Rs # ns["Qshortwave"]

\* C4: for a cloud cover c in [0, 8] the net shortwave radiation is never
\* negative, is (1 - albedo) * QswIdeal at c = 0 and 0 at c = 8, and of two
\* runs with the same clear-sky irradiance the one with the larger cloud
\* cover never has the larger net shortwave radiation.
C4_ShortwaveMonotone ==
    (ShortwaveDone /\ CloudInRange(ns["cloudCover"])) =>
        /\ FLe(Zero, ns["Qshortwave"])
        /\ ns["cloudCover"] = Zero
              => ns["Qshortwave"] = FMul(FSub(Lit(1, 1), ns["albedo"]), ns["QswIdeal"])
        /\ ns["cloudCover"] = Lit(8, 1) => IsZero(ns["Qshortwave"])
        /\ \A p \in prev :
              (CloudInRange(p.obs.cloudCover) /\ p.obs.QswIdeal = ns["QswIdeal"]) =>
                 /\ FLe(p.obs.cloudCover, ns["cloudCover"])
                       => FLe(ns["Qshortwave"], p.Qshortwave)
                 /\ FLe(ns["cloudCover"], p.obs.cloudCover)
                       => FLe(p.Qshortwave, ns["Qshortwave"])

\* a second run with a different cloud cover in [0, 8] has computed its net
\* shortwave radiation, which is neither 0 nor the clear-sky maximum
C4_Witness ==
    /\ ShortwaveDone
    /\ CloudInRange(ns["cloudCover"])
    /\ \E p \in prev : CloudInRange(p.obs.cloudCover) /\ p.Qshortwave # ns["Qshortwave"]
    /\ FLt(Zero, ns["Qshortwave"])

\* C5: the summary reports the sensible, latent and net longwave fluxes as the
\* exact negations of the values the estimator returned, and the net heat flux
\* as -QnetMinusSW + Qshortwave; the lines written are the formats of these.
C5_PositiveIntoOcean ==
    pc = "done" =>
        \A c \in coareCall :
            /\ summary[1] = FNeg(c.resp.row[2])
            /\ summary[2] = FNeg(c.resp.row[3])
            /\ summary[3] = FNeg(c.resp.row[4])
            /\ summary[4] = FAdd(FNeg(c.resp.row[5]), c.args.Rs)
            /\ c.args.Rs = ns["Qshortwave"]
            /\ stdout[2].num = Format(5, 2, FNeg(c.resp.row[2]))
            /\ stdout[3].num = Format(5, 2, FNeg(c.resp.row[3]))
            /\ stdout[4].num = Format(5, 2, FNeg(c.resp.row[4]))
            /\ stdout[5].num = Format(5, 2, FAdd(FNeg(c.resp.row[5]), c.args.Rs))

\* a run has written its summary, with non-zero fluxes and a net shortwave part
C5_Witness ==
    /\ pc = "done"
    /\ ~IsZero(summary[1]) /\ ~IsZero(summary[2]) /\ ~IsZero(summary[3])
    /\ FLt(Zero, ns["Qshortwave"])
    /\ summary[4] # FNeg(ns["QnetMinusSW"])

\* the statement of C6 about the signs, for one run
C6_Signs ==
    /\ FLt(Zero, ns["Bf"]) => FLt(ns["L"], Zero)
    /\ FLt(ns["Bf"], Zero) => FLt(Zero, ns["L"])

\* the statement of C6 about the magnitudes, for two runs with the same
\* friction velocity: the smaller non-zero |Bf| never has the smaller |L|
C6_Magnitudes ==
    \A p \in prev :
        (/\ p.ustar = ns["ustar"]
         /\ ~IsZero(ns["Bf"]) /\ ~IsZero(p.summary[5])
         /\ FLe(FAbs(ns["Bf"]), FAbs(p.summary[5])))
            => FLe(FAbs(p.summary[6]), FAbs(ns["L"]))

\* C6: for tau > 0, L has the sign opposite to that of Bf (Bf > 0 gives L < 0,
\* Bf < 0 gives L > 0), and for a fixed friction velocity a smaller non-zero
\* |Bf| never gives a smaller |L|.
C6_OppositeSign ==
    (ObukhovDone /\ FLt(Zero, ns["tau"])) => (C6_Signs /\ C6_Magnitudes)

\* the same for a finite buoyancy flux
C6_OppositeSignFiniteBf ==
    (ObukhovDone /\ FLt(Zero, ns["tau"]) /\ IsFin(ns["Bf"])
        /\ \A p \in prev : IsFin(p.summary[5]))
            => (C6_Signs /\ C6_Magnitudes)

\* C7: a run on the same inputs as the run before it gives the same six values
\* and the same lines.
C7_SameInputsSameOutputs ==
    pc = "done" =>
        \A p \in prev : p.obs = obs => (summary = p.summary /\ stdout = p.stdout)

\* the notebook has been run twice on the same inputs, to the end, with a
\* finite non-zero Obukhov length
C7_Witness ==
    /\ pc = "done"
    /\ \E p \in prev : p.obs = obs
    /\ IsFin(summary[6]) /\ ~IsZero(summary[6])

\* C8, the state part: a run the estimator failed has stopped in cell 3 with
\* the estimator's error, has completed no later cell and written no summary.
C8_Stopped ==
    /\ error # "none" =>
          /\ pc = "error"
          /\ error = "FluxEstimationFailed"
          /\ ran = <<"cell2">>
          /\ summary = <<>>
          /\ stdout = <<>>
    /\ (\E c \in coareCall : c.resp.raised) => pc = "error"

\* C8, the step part: the step that fails leaves A and the six names unpacked
\* from it as they were, and no step follows it.
C8_NoDefaults ==
    /\ pc # "error"
    /\ error' # "none" =>
          /\ A' = A
          /\ \A v \in {"tau", "Qsensible", "Qlatent", "LWnet", "QnetMinusSW",
                       "evaporation", "alpha", "beta", "Cp", "Qnet", "Qp", "Bf", "L"} :
                ns'[v] = ns[v]

C9_SalinityValidated ==
    (Ran("cell2") /\ ns["surfaceSalinity"] = Lit(1000, 1))
        => (~Ran("cell5") /\ (pc \notin {"cell3", "cell4", "cell5"} => pc = "error"))

\* C10, the state part: the cells complete in the order of the notebook; a
\* cell about to run reads only names written earlier in the same run; the
\* value passed to the estimator as Rs is the Qshortwave added into Qnet, and
\* the tau and evaporation used later are the ones the estimator returned.
C10_DataFlow ==
    /\ ran = SubSeq(Cells, 1, Len(ran))
    /\ pc \in {"done", "error"} \/ (Len(ran) < Len(Cells) /\ pc = Cells[Len(ran) + 1])
    /\ pc = "done" => Len(ran) = Len(Cells)
    /\ \A v \in Reads(pc) : \E i \in 1..Len(ran) : v \in Writes(ran[i])
    /\ Ran("cell3") =>
          \A c \in coareCall :
              /\ c.args.Rs = ns["Qshortwave"]
              /\ ns["tau"] = c.resp.row[1]
              /\ ns["evaporation"] = c.resp.row[6]
              /\ ns["QnetMinusSW"] = c.resp.row[5]
    /\ Ran("cell5") =>
          /\ ns["Qnet"] = FAdd(FNeg(ns["QnetMinusSW"]), ns["Qshortwave"])
          /\ ns["evap"] = FDiv(ns["evaporation"], Lit(3600, 1))
    /\ Ran("cell6") => ns["ustar"] = FSqrt(FDiv(ns["tau"], ns["rho0"]))

\* C10, the step part: a step changes only names its own cell writes, and
\* only a cell that has not yet completed in this run takes a step.
C10_WriteOnce ==
    /\ \A v \in Names : ns'[v] # ns[v] => (v \in Writes(pc) /\ ~Ran(pc))
    /\ pc' \notin {pc, "cell2", "error"} => (~Ran(pc) /\ ran' = Append(ran, pc))

\* C10: the stages run in the fixed order, every value a stage reads was
\* produced by an earlier stage of the run and is not reassigned afterwards.
C10_FixedOrder == [](C10_DataFlow) /\ [][C10_WriteOnce]_vars

\* a second run has completed all its cells
C10_Witness ==
    /\ pc = "done"
    /\ prev # {}
    /\ \E p \in prev : p.obs # obs

=============================================================================
